---- MODULE Spec2Model ----
(***************************************************************************)
(* Model of the Interactive Avatar WebSocket server                        *)
(* (src/interactive_avatar_server.py and src/services/*.py).               *)
(*                                                                         *)
(* One handler coroutine (websocket_endpoint) runs per accepted            *)
(* connection on a single asyncio event loop.  A handler action covers the *)
(* code from the resumption of one adapter await to the next adapter       *)
(* await; renders run in the threads of the event loop's default executor. *)
(***************************************************************************)
EXTENDS Integers, Sequences, FiniteSets, TLC

\* ---------------------------------------------------------------- bounds
NConn == 2          \* connections (handler coroutines) in the model
MaxTurns == 2       \* text_input / audio frames the clients send after Init
MaxPrior == 5       \* turns the first connection has completed before Init
MaxClock == 1       \* readings of the wall clock: 0..MaxClock
MaxWorkers == 2     \* threads of the default executor
MaxInbox == 1       \* turn inputs buffered per connection while a turn runs

\* ------------------------------------------------------ program constants
HistoryCap == 10    \* "Keep only last 10 messages"
TicksPerSecond == 1000000   \* clock readings (%f, microseconds) per second

Conns == 1..NConn
Stamps == 0..MaxClock
ListIds == 1..(2 * NConn + 1)
NoRef == 0

TurnKinds == {"text_input", "audio"}
\* A binary frame holds some bytes or none.
AudioPayloads == {"bytes", "empty"}
ControlKinds == {"config", "other", "malformed"}

VARIABLES
    now,                    \* last reading of the wall clock (datetime.now())
    active_sessions,        \* registry: session id -> session dict
    dictHist,               \* session dict -> its "conversation_history" list
    heap,                   \* list object -> contents
    pc,                     \* where each handler coroutine is suspended
    session_id,             \* websocket_endpoint local
    origin,                 \* kind of the inbound frame being handled
    user_text,              \* process_user_input argument (identity of the text)
    session,                \* process_user_input local: the session dict
    conversation_history,   \* process_user_input local: the list object
    open,                   \* the client end of the connection is connected
    inbox,                  \* turn inputs received but not yet read (a count)
    sent,                   \* frames delivered while handling the current inbound frame
    workq,                  \* executor work queue (submitted renders)
    taken,                  \* renders a worker thread has dequeued, generate not yet called
    running,                \* renders executing pipeline.generate
    rendered,               \* the current turn's render returned a video
    failed,                 \* an exception was raised while handling the current frame
    hist0,                  \* the session's buffer when the current turn began
    ncommit,                \* history updates each connection's turns have made
    nsent,                  \* turn inputs the clients have sent since Init
    temp_file,              \* state of the current turn's temporary audio file
    messages,               \* message list of the pending chat completion call
    audio_data,             \* payload of the pending transcription call
    video_path              \* output path of the current turn's render (<<>>: none)

handlerVars == <<pc, sent, session, conversation_history, active_sessions,
                 dictHist, heap, failed>>
clientVars == <<open, inbox, nsent>>
execVars == <<workq, taken, running>>
turnVars == <<origin, user_text, rendered, ncommit>>
svcVars == <<temp_file, messages, audio_data, video_path>>

vars == <<now, session_id, handlerVars, clientVars, execVars, turnVars, hist0,
          svcVars>>

\* ---------------------------------------------------------------- frames
Frame(t) == [type |-> t, status |-> ""]
Status(s) == [type |-> "status", status |-> s]

ConnectionFrame == Frame("connection")
ConfigUpdatedFrame == Frame("config_updated")
TranscriptionFrame == Frame("transcription")
ResponseFrame == Frame("response")
VideoReadyFrame == Frame("video_ready")
ErrorFrame == Frame("error")

\* Frames each stage sends, in the order of its send_json calls.
AudioStartFrames == <<Status("transcribing")>>
AfterSttFrames == <<TranscriptionFrame>>
TurnStartFrames == <<Status("thinking")>>
\* The response frame sent after the synthesizing status instead of before it.
AfterLlmFramesSwapped == <<Status("synthesizing"), ResponseFrame>>
AfterLlmFrames == <<ResponseFrame, Status("synthesizing")>>
\* No status frame before the render is requested.
AfterTtsFramesNone == <<>>
AfterTtsFrames == <<Status("generating_video")>>
AfterRenderFrames == <<VideoReadyFrame>>

\* ------------------------------------------------------- pure operations
\* {"role": "user", "content": user_text}: a text is identified by the
\* connection it arrived on and a number n; each client numbers its texts so
\* that the texts its session has recorded are numbered 1, 2, 3, ...
UserEntry(c, n) == [role |-> "user", conn |-> c, n |-> n]
AssistantEntry(c, n) == [role |-> "assistant", conn |-> c, n |-> n]

\* conversation_history.append(user); conversation_history.append(assistant)
Appended(h, c, n) == h \o <<UserEntry(c, n), AssistantEntry(c, n)>>

LastN(h, k) == IF Len(h) > k THEN SubSeq(h, Len(h) - k + 1, Len(h)) ELSE h

\* if len(conversation_history) > 10: conversation_history[-10:]
NeedsTrim(h) == Len(h) > HistoryCap
\* A slice that keeps one entry too few.
TrimmedOdd(h) == LastN(h, HistoryCap - 1)
\* A slice that keeps one entry too many.
TrimmedLoose(h) == LastN(h, HistoryCap + 1)
Trimmed(h) == LastN(h, HistoryCap)

\* messages = [system] + conversation_history + [user]
SystemEntry == [role |-> "system", conn |-> NoRef, n |-> NoRef]
Messages(h, c, n) == <<SystemEntry>> \o h \o <<UserEntry(c, n)>>

\* timestamp = datetime.now().strftime("%Y%m%d_%H%M%S");
\* output_path = os.path.join(output_dir, f"avatar_{timestamp}.mp4")
NewVideoPath(clock) == clock \div TicksPerSecond

\* session_id = f"session_{datetime.now().strftime('%Y%m%d_%H%M%S_%f')}"
NewSessionId(clock) == clock

\* A removal that, for an id that is not registered, drops some other entry.
RemoveAny(reg, id) ==
    IF id \in DOMAIN reg THEN [i \in DOMAIN reg \ {id} |-> reg[i]]
    ELSE [i \in {j \in DOMAIN reg : \E m \in DOMAIN reg : m < j} |-> reg[i]]

\* if session_id in active_sessions: del active_sessions[session_id]
Remove(reg, id) ==
    IF id \in DOMAIN reg THEN [i \in DOMAIN reg \ {id} |-> reg[i]] ELSE reg

\* active_sessions[session_id] = {...}
Put(reg, id, d) == [i \in DOMAIN reg \cup {id} |-> IF i = id THEN d ELSE reg[i]]

\* ------------------------------------------------ object lifetime (refs)
LiveDicts(reg, sess) ==
    ({reg[i] : i \in DOMAIN reg} \cup {sess[c] : c \in Conns}) \ {NoRef}
CleanDicts(dh, reg, sess) ==
    [d \in Conns |-> IF d \in LiveDicts(reg, sess) THEN dh[d] ELSE NoRef]
LiveLists(dh, ch) ==
    ({dh[d] : d \in Conns} \cup {ch[c] : c \in Conns}) \ {NoRef}
CleanHeap(h, dh, ch) ==
    [l \in ListIds |-> IF l \in LiveLists(dh, ch) THEN h[l] ELSE <<>>]
FreeLists(dh, ch) == ListIds \ LiveLists(dh, ch)
Alloc(dh, ch) ==
    CHOOSE l \in FreeLists(dh, ch) : \A m \in FreeLists(dh, ch) : l <= m

\* The buffer stored in the registry for a session id.
Buffer(id) == heap[dictHist[active_sessions[id]]]

\* ------------------------------------------------------------------ Init
\* The buffer of a session whose k turns so far all succeeded: the history
\* update of process_user_input applied k times to the empty list.
RECURSIVE AfterTurns(_, _)
AfterTurns(c, k) ==
    IF k = 0 THEN <<>> ELSE Trimmed(Appended(AfterTurns(c, k - 1), c, k))

\* The server has just started (k = 0), or its first connection was accepted
\* at clock reading 0, has completed k turns, all successful, and waits in
\* receive().
InitAfter(k) ==
    /\ now = 0
    /\ active_sessions = IF k = 0 THEN <<>> ELSE Put(<<>>, NewSessionId(0), 1)
    /\ dictHist = [d \in Conns |-> IF k > 0 /\ d = 1 THEN 1 ELSE NoRef]
    /\ heap = [l \in ListIds |-> IF k > 0 /\ l = 1 THEN AfterTurns(1, k) ELSE <<>>]
    /\ pc = [c \in Conns |-> IF k > 0 /\ c = 1 THEN "recv" ELSE "new"]
    /\ session_id = [c \in Conns |-> NewSessionId(0)]
    /\ origin = [c \in Conns |-> "none"]
    /\ user_text = [c \in Conns |-> 0]
    /\ session = [c \in Conns |-> NoRef]
    /\ conversation_history = [c \in Conns |-> NoRef]
    /\ open = [c \in Conns |-> k > 0 /\ c = 1]
    /\ inbox = [c \in Conns |-> 0]
    /\ sent = [c \in Conns |-> <<>>]
    /\ workq = <<>>
    /\ taken = <<>>
    /\ running = {}
    /\ rendered = [c \in Conns |-> FALSE]
    /\ failed = [c \in Conns |-> FALSE]
    /\ hist0 = [c \in Conns |-> <<>>]
    /\ ncommit = [c \in Conns |-> IF c = 1 THEN k ELSE 0]
    /\ nsent = 0
    /\ temp_file = [c \in Conns |-> "none"]
    /\ messages = [c \in Conns |-> <<>>]
    /\ audio_data = [c \in Conns |-> "none"]
    /\ video_path = [c \in Conns |-> <<>>]

Init == \E k \in {0, MaxPrior} : InitAfter(k)

\* ------------------------------------------------- handler step skeleton
\* websocket.send_json on this connection: the frames are delivered while
\* the client is connected; to a disconnected client nothing is delivered.
Delivered(c, log, frames) == IF open[c] THEN log \o frames ELSE log

\* A send to a disconnected client raises (r) or is silently dropped (~r).
SendRaises(c, r) == ~open[c] /\ r

\* A handler step that could run only while no render executes (a render
\* that ran on the event loop thread would block every handler).
StepWhenNoRender(c, newpc, log, frames, sess, ch, reg, dh, hp) ==
    /\ running = {}
    /\ pc' = [pc EXCEPT ![c] = newpc]
    /\ sent' = [sent EXCEPT ![c] = Delivered(c, log, frames)]
    /\ session' = [session EXCEPT ![c] = sess]
    /\ conversation_history' = [conversation_history EXCEPT ![c] = ch]
    /\ active_sessions' = reg
    /\ dictHist' = CleanDicts(dh, reg, session')
    /\ heap' = CleanHeap(hp, dictHist', conversation_history')

\* The handler of c runs up to its next suspension point.
Step(c, newpc, log, frames, sess, ch, reg, dh, hp) ==
    /\ pc' = [pc EXCEPT ![c] = newpc]
    /\ sent' = [sent EXCEPT ![c] = Delivered(c, log, frames)]
    /\ session' = [session EXCEPT ![c] = sess]
    /\ conversation_history' = [conversation_history EXCEPT ![c] = ch]
    /\ active_sessions' = reg
    /\ dictHist' = CleanDicts(dh, reg, session')
    /\ heap' = CleanHeap(hp, dictHist', conversation_history')

\* handle_message / handle_audio return to the receive loop.
Back(c, log, frames, isFail) ==
    /\ Step(c, "end", log, frames, NoRef, NoRef, active_sessions, dictHist, heap)
    /\ failed' = [failed EXCEPT ![c] = isFail]

\* A finally block that leaves the registry as it is.
FinallyKeeps(reg, id) == reg

\* The registry after the finally block of websocket_endpoint.
Finally(reg, id) == Remove(reg, id)

\* websocket_endpoint: except ... / finally: the session is cleaned up.
Tear(c, log, isFail) ==
    /\ Step(c, "closed", log, <<>>, NoRef, NoRef,
            Finally(active_sessions, session_id[c]), dictHist, heap)
    /\ failed' = [failed EXCEPT ![c] = isFail]

\* An exception handler that lets every exception end websocket_endpoint.
ExceptCloses(c, log, pre, r) == Tear(c, log, TRUE)

\* An exception handler of a turn whose user message was put into the buffer
\* before the failing call and is left there.
ExceptKeepsUser(c, log, pre, r) ==
    IF session_id[c] \in DOMAIN active_sessions /\ ~SendRaises(c, r)
    THEN /\ Step(c, "end", log, pre \o <<ErrorFrame>>, NoRef, NoRef,
                 active_sessions, dictHist,
                 [heap EXCEPT ![dictHist[active_sessions[session_id[c]]]] =
                     Append(@, UserEntry(c, user_text[c]))])
         /\ failed' = [failed EXCEPT ![c] = TRUE]
    ELSE Tear(c, log, TRUE)

\* An exception reaches "except Exception as e" of process_user_input or of
\* handle_audio: the error frame is sent; if that send raises too, the
\* exception leaves the handler (through handle_audio's except, whose send
\* raises as well) and ends websocket_endpoint.
Except(c, log, pre, r) ==
    IF SendRaises(c, r) THEN Tear(c, log, TRUE)
    ELSE Back(c, log, pre \o <<ErrorFrame>>, TRUE)

\* process_user_input up to "await llm_service.generate_response(...)".
BeginTurn(c, log, pre, r) ==
    IF session_id[c] \notin DOMAIN active_sessions \/ SendRaises(c, r)
    THEN /\ Except(c, log, pre, r)  \* KeyError, or the status send raises
         /\ UNCHANGED messages
    ELSE LET d == active_sessions[session_id[c]] IN
         /\ Step(c, "llm", log, pre \o TurnStartFrames, d, dictHist[d],
                 active_sessions, dictHist, heap)
         /\ failed' = [failed EXCEPT ![c] = FALSE]
         /\ messages' = [messages EXCEPT ![c] =
                            Messages(heap[dictHist[d]], c, user_text'[c])]

\* ----------------------------------------------------------- environment
\* The client sends a text_input or an audio frame; it waits in the
\* connection's receive queue until the handler reads it.
ClientSend(c) ==
    /\ open[c]
    /\ inbox[c] < MaxInbox
    /\ nsent < MaxTurns
    /\ nsent' = nsent + 1
    /\ inbox' = [inbox EXCEPT ![c] = @ + 1]
    /\ UNCHANGED <<now, session_id, handlerVars, open, execVars, turnVars, hist0,
                   svcVars>>

ClientDisconnect(c) ==
    /\ open[c]
    /\ open' = [open EXCEPT ![c] = FALSE]
    /\ UNCHANGED <<now, session_id, handlerVars, inbox, nsent, execVars, turnVars,
                   hist0, svcVars>>

\* ----------------------------------------------------- websocket_endpoint
\* accept, session id, registry entry, "connection" frame.  datetime.now()
\* reads the wall clock: the first reading is 0, a later one is the previous
\* reading again or (adv) the next one.
Accept(c, adv) ==
    /\ pc[c] = "new"
    /\ \A b \in Conns : b < c => pc[b] # "new"
    /\ adv => (now < MaxClock /\ c > 1)
    /\ now' = IF adv THEN now + 1 ELSE now
    /\ LET id == NewSessionId(now')
           l == Alloc(dictHist, conversation_history)
       IN /\ session_id' = [session_id EXCEPT ![c] = id]
          /\ active_sessions' = Put(active_sessions, id, c)
          /\ dictHist' = CleanDicts([dictHist EXCEPT ![c] = l], active_sessions', session)
          /\ heap' = CleanHeap([heap EXCEPT ![l] = <<>>], dictHist', conversation_history)
    /\ open' = [open EXCEPT ![c] = TRUE]
    /\ sent' = [sent EXCEPT ![c] = <<ConnectionFrame>>]
    /\ pc' = [pc EXCEPT ![c] = "recv"]
    /\ UNCHANGED <<session, conversation_history, failed, hist0, inbox, nsent,
                   execVars, turnVars, svcVars>>

\* A handler that would read inbound frames while an adapter call is pending.
AtReceiveAny(c) == pc[c] \in {"recv", "stt", "llm", "tts", "render"}

\* The handler reads inbound frames in "message = await websocket.receive()"
\* only: never while it is inside handle_message or handle_audio.
AtReceive(c) == pc[c] = "recv"

\* message = await websocket.receive() returns a text_input or audio frame
\* (k); handle_message / handle_audio run up to the first adapter call.
Receive(c, k, r) ==
    /\ AtReceive(c)
    /\ inbox[c] > 0
    /\ inbox' = [inbox EXCEPT ![c] = @ - 1]
    /\ origin' = [origin EXCEPT ![c] = k]
    /\ user_text' = [user_text EXCEPT ![c] = ncommit[c] + 1]
    /\ hist0' = [hist0 EXCEPT ![c] =
                    IF session_id[c] \in DOMAIN active_sessions
                    THEN Buffer(session_id[c]) ELSE <<>>]
    /\ IF k = "text_input"
       THEN /\ BeginTurn(c, <<>>, <<>>, r)
            /\ UNCHANGED audio_data
       ELSE /\ IF SendRaises(c, r)
               THEN /\ Except(c, <<>>, <<>>, r)
                    /\ UNCHANGED audio_data
               ELSE /\ Step(c, "stt", <<>>, AudioStartFrames, NoRef, NoRef,
                            active_sessions, dictHist, heap)
                    /\ failed' = [failed EXCEPT ![c] = FALSE]
                    \* stt_service.transcribe(audio_data), whatever its length
                    /\ \E a \in AudioPayloads :
                          audio_data' = [audio_data EXCEPT ![c] = a]
            /\ UNCHANGED messages
    /\ UNCHANGED <<now, session_id, open, nsent, execVars, rendered, ncommit,
                   temp_file, video_path>>

\* A frame that starts no turn arrives while the handler waits in receive():
\* a config message, a message of another type, or text that is not a JSON
\* object.
ReceiveControl(c, k) ==
    /\ AtReceive(c)
    /\ open[c]
    /\ inbox[c] = 0
    /\ origin' = [origin EXCEPT ![c] = k]
    /\ CASE k = "malformed" ->          \* json.loads / data.get raises
              Tear(c, <<>>, TRUE)
         [] k = "other" ->              \* no branch of handle_message
              Back(c, <<>>, <<>>, FALSE)
         [] k = "config" ->
              Back(c, <<>>, <<ConfigUpdatedFrame>>, FALSE)
    /\ UNCHANGED <<now, session_id, clientVars, execVars, user_text, rendered, ncommit,
                   hist0, svcVars>>

\* receive() returns the disconnect message, which matches neither branch;
\* the next receive() raises and the finally block runs.
RecvDisconnect(c) ==
    /\ AtReceive(c)
    /\ inbox[c] = 0
    /\ ~open[c]
    /\ Tear(c, <<>>, FALSE)
    /\ UNCHANGED <<now, session_id, clientVars, execVars, turnVars, hist0, svcVars>>

\* The handler is back at "message = await websocket.receive()": the record
\* of the frame just handled is dropped.
Loop(c) ==
    /\ pc[c] = "end"
    /\ pc' = [pc EXCEPT ![c] = "recv"]
    /\ sent' = [sent EXCEPT ![c] = <<>>]
    /\ origin' = [origin EXCEPT ![c] = "none"]
    /\ user_text' = [user_text EXCEPT ![c] = 0]
    /\ rendered' = [rendered EXCEPT ![c] = FALSE]
    /\ failed' = [failed EXCEPT ![c] = FALSE]
    /\ hist0' = [hist0 EXCEPT ![c] = <<>>]
    /\ temp_file' = [temp_file EXCEPT ![c] = "none"]
    /\ video_path' = [video_path EXCEPT ![c] = <<>>]
    /\ UNCHANGED <<now, session_id, session, conversation_history, active_sessions,
                   dictHist, heap, clientVars, execVars, ncommit, messages,
                   audio_data>>

\* websocket_endpoint returns; the server closes the connection.
Exit(c) ==
    /\ pc[c] = "closed"
    /\ pc' = [pc EXCEPT ![c] = "done"]
    /\ sent' = [sent EXCEPT ![c] = <<>>]
    /\ origin' = [origin EXCEPT ![c] = "none"]
    /\ user_text' = [user_text EXCEPT ![c] = 0]
    /\ rendered' = [rendered EXCEPT ![c] = FALSE]
    /\ failed' = [failed EXCEPT ![c] = FALSE]
    /\ open' = [open EXCEPT ![c] = FALSE]
    /\ inbox' = [inbox EXCEPT ![c] = 0]
    /\ hist0' = [hist0 EXCEPT ![c] = <<>>]
    /\ temp_file' = [temp_file EXCEPT ![c] = "none"]
    /\ video_path' = [video_path EXCEPT ![c] = <<>>]
    /\ UNCHANGED <<now, session_id, session, conversation_history, active_sessions,
                   dictHist, heap, nsent, execVars, ncommit, messages,
                   audio_data>>

\* ------------------------------------------------------------ handle_audio
\* transcribe returned or raised; transcription frame; process_user_input.
SttReturn(c, ok, r) ==
    /\ pc[c] = "stt"
    /\ UNCHANGED <<now, session_id, clientVars, execVars, turnVars, hist0, temp_file,
                   video_path>>
    /\ audio_data' = [audio_data EXCEPT ![c] = "none"]
    /\ IF ~ok \/ SendRaises(c, r)
       THEN /\ Except(c, sent[c], <<>>, r)
            /\ UNCHANGED messages
       ELSE BeginTurn(c, sent[c], AfterSttFrames, r)

\* ------------------------------------------------------ process_user_input
\* generate_response returned or raised; response frame; history update;
\* status frame.
LlmReturn(c, ok, r) ==
    /\ pc[c] = "llm"
    /\ IF ~ok \/ SendRaises(c, r)
       THEN /\ Except(c, sent[c], <<>>, r)
            /\ UNCHANGED <<ncommit, temp_file>>
       ELSE LET l == conversation_history[c]
                h1 == Appended(heap[l], c, user_text[c])
                hp1 == [heap EXCEPT ![l] = h1]
                n == IF NeedsTrim(h1) THEN Alloc(dictHist, conversation_history) ELSE l
                hp2 == IF NeedsTrim(h1) THEN [hp1 EXCEPT ![n] = Trimmed(h1)] ELSE hp1
            IN /\ Step(c, "tts", sent[c], AfterLlmFrames,
                       session[c], n, active_sessions,
                       [dictHist EXCEPT ![session[c]] = n], hp2)
               /\ ncommit' = [ncommit EXCEPT ![c] = @ + 1]
               \* synthesize: NamedTemporaryFile(delete=False), then the call
               /\ temp_file' = [temp_file EXCEPT ![c] = "empty"]
               /\ UNCHANGED failed
    /\ messages' = [messages EXCEPT ![c] = <<>>]
    /\ UNCHANGED <<now, session_id, clientVars, execVars, origin, user_text, rendered, hist0,
                   audio_data, video_path>>

\* synthesize returned or raised; status frame; the render is handed to the
\* executor.
TtsReturn(c, ok, r) ==
    /\ pc[c] = "tts"
    /\ IF ~ok \/ SendRaises(c, r)
       THEN /\ Except(c, sent[c], <<>>, r)
            /\ UNCHANGED workq
       ELSE /\ Step(c, "render", sent[c], AfterTtsFrames,
                    session[c], conversation_history[c], active_sessions, dictHist, heap)
            /\ workq' = Append(workq, c)
            /\ UNCHANGED failed
    \* response.stream_to_file(output_path)
    /\ temp_file' = [temp_file EXCEPT ![c] = IF ok THEN "audio" ELSE @]
    /\ UNCHANGED <<now, session_id, clientVars, taken, running, turnVars, hist0, messages,
                   audio_data, video_path>>

\* ------------------------------------------------ default executor threads
\* An executor none of whose threads ever takes a queued work item.
WorkerTakeNever == FALSE /\ UNCHANGED vars

\* A worker thread takes the oldest work item off the queue.
WorkerTake ==
    /\ workq # <<>>
    /\ Len(taken) + Cardinality(running) < MaxWorkers
    /\ taken' = Append(taken, Head(workq))
    /\ workq' = Tail(workq)
    /\ UNCHANGED <<now, session_id, handlerVars, clientVars, running, turnVars, hist0,
                   svcVars>>

Without(q, c) == SelectSeq(q, LAMBDA x : x # c)

\* The thread that took c's work item calls _generate_sync -> pipeline.generate.
WorkerStart(c) ==
    /\ \E i \in 1..Len(taken) : taken[i] = c
    /\ taken' = Without(taken, c)
    /\ running' = running \cup {c}
    /\ UNCHANGED <<now, session_id, handlerVars, clientVars, workq, turnVars, hist0,
                   svcVars>>

\* generate_avatar_video returned or raised; video_ready; temp file cleanup.
RenderReturn(c, ok, cleanupOk, r) ==
    /\ pc[c] = "render"
    /\ c \in running
    /\ ~ok => cleanupOk
    /\ running' = running \ {c}
    /\ rendered' = [rendered EXCEPT ![c] = ok]
    /\ IF ~ok \/ SendRaises(c, r)
       THEN Except(c, sent[c], <<>>, r)
       ELSE IF cleanupOk
            THEN Back(c, sent[c], AfterRenderFrames, FALSE)
            ELSE Except(c, sent[c], AfterRenderFrames, r)
    \* os.unlink(audio_path) is reached after the video_ready send only
    /\ temp_file' = [temp_file EXCEPT ![c] =
                        IF ok /\ ~SendRaises(c, r) /\ cleanupOk THEN "none" ELSE @]
    \* _generate_sync names the output file after the clock's second
    /\ video_path' = [video_path EXCEPT ![c] =
                         IF ok THEN <<NewVideoPath(now)>> ELSE @]
    /\ UNCHANGED <<now, session_id, clientVars, workq, taken, origin, user_text, ncommit,
                   hist0, messages, audio_data>>

Next ==
    \/ \E c \in Conns, adv \in BOOLEAN : Accept(c, adv)
    \/ \E c \in Conns : ClientSend(c)
    \/ \E c \in Conns : ClientDisconnect(c)
    \/ \E c \in Conns, k \in TurnKinds, r \in BOOLEAN : Receive(c, k, r)
    \/ \E c \in Conns, k \in ControlKinds : ReceiveControl(c, k)
    \/ \E c \in Conns : RecvDisconnect(c)
    \/ \E c \in Conns : Loop(c)
    \/ \E c \in Conns : Exit(c)
    \/ \E c \in Conns, ok \in BOOLEAN, r \in BOOLEAN : SttReturn(c, ok, r)
    \/ \E c \in Conns, ok \in BOOLEAN, r \in BOOLEAN : LlmReturn(c, ok, r)
    \/ \E c \in Conns, ok \in BOOLEAN, r \in BOOLEAN : TtsReturn(c, ok, r)
    \/ WorkerTake
    \/ \E c \in Conns : WorkerStart(c)
    \/ \E c \in Conns, ok \in BOOLEAN, cu \in BOOLEAN, r \in BOOLEAN :
           RenderReturn(c, ok, cu, r)

Spec == Init /\ [][Next]_vars

\* Every pending adapter or render call returns, every handler that can run
\* does run, and the executor's threads take and start the queued renders.
Handler(c) ==
    \/ \E k \in TurnKinds, r \in BOOLEAN : Receive(c, k, r)
    \/ RecvDisconnect(c)
    \/ Loop(c)
    \/ Exit(c)
    \/ \E ok \in BOOLEAN, r \in BOOLEAN : SttReturn(c, ok, r)
    \/ \E ok \in BOOLEAN, r \in BOOLEAN : LlmReturn(c, ok, r)
    \/ \E ok \in BOOLEAN, r \in BOOLEAN : TtsReturn(c, ok, r)
    \/ \E ok \in BOOLEAN, cu \in BOOLEAN, r \in BOOLEAN : RenderReturn(c, ok, cu, r)
FairSpec ==
    /\ InitAfter(0)            \* the freshly started server
    /\ [][Next]_vars
    /\ \A c \in Conns : WF_vars(Handler(c))
    /\ \A c \in Conns : WF_vars(WorkerStart(c))
    /\ WF_vars(WorkerTake)

TypeOK ==
    /\ now \in Stamps
    /\ DOMAIN active_sessions \subseteq Stamps
    /\ \A c \in Conns :
         pc[c] \in {"new", "recv", "stt", "llm", "tts", "render", "end", "closed", "done"}

\* ================================================================ claims
\* A turn input (text_input or audio) is being handled or has just been.
InTurn(c) == origin[c] \in TurnKinds
TurnEnded(c) == InTurn(c) /\ pc[c] = "end"
Registered(c) == pc[c] \notin {"new", "closed", "done"}
                    /\ session_id[c] \in DOMAIN active_sessions
\* No other connection was given the session id of c.
Unshared(c) ==
    /\ Registered(c)
    /\ \A b \in Conns \ {c} : pc[b] = "new" \/ session_id[b] # session_id[c]
Occurs(f, log) == \E i \in 1..Len(log) : log[i] = f
CountOf(f, log) == Cardinality({i \in 1..Len(log) : log[i] = f})

\* C1: at most one render operation (one call of pipeline.generate) is
\* executing at any instant, however many sessions reach the render stage.
RenderMutualExclusion == Cardinality(running) <= 1

\* C2: when a turn has ended, its {user, assistant} pair is in the session's
\* buffer if and only if its render succeeded, and after a turn whose render
\* did not succeed the buffer equals its value from before the turn (stated
\* for a session whose id no other connection has).
TurnRecorded(c) ==
    \E i \in 1..Len(Buffer(session_id[c])) :
        /\ Buffer(session_id[c])[i].conn = c
        /\ Buffer(session_id[c])[i].n = user_text[c]
CommitIffDelivering ==
    \A c \in Conns :
        (TurnEnded(c) /\ Unshared(c)) =>
            /\ TurnRecorded(c) <=> rendered[c]
            /\ ~rendered[c] => Buffer(session_id[c]) = hist0[c]

\* C3: every conversation buffer stored in a session holds at most 10
\* entries, in every state the server can be in between handler steps.
BufferNeverExceedsCap ==
    \A d \in Conns : dictHist[d] # NoRef => Len(heap[dictHist[d]]) <= HistoryCap

\* C3 witness: a turn recorded its pair in a buffer that already held 10
\* entries, and the stored buffer holds 10 again.
CapReachedByTrim ==
    \E c \in Conns :
        /\ pc[c] = "tts"
        /\ Len(hist0[c]) = HistoryCap
        /\ dictHist[session[c]] = conversation_history[c]
        /\ Len(heap[conversation_history[c]]) = HistoryCap
        /\ heap[conversation_history[c]] # hist0[c]

\* C4: on a connection whose client stays connected, the frames of a turn are
\* always a prefix of status(transcribing), transcription, status(thinking),
\* response, status(synthesizing), status(generating_video), video_ready
\* (the first two exactly for an audio turn), followed by nothing but an
\* error frame; a turn whose render returned has sent the whole sequence, and
\* a turn that ended without an exception has sent exactly that sequence.
TextTurnFrames ==
    <<Status("thinking"), ResponseFrame, Status("synthesizing"),
      Status("generating_video"), VideoReadyFrame>>
AudioTurnFrames == <<Status("transcribing"), TranscriptionFrame>> \o TextTurnFrames
TurnFrames(k) == IF k = "audio" THEN AudioTurnFrames ELSE TextTurnFrames
IsPrefix(a, b) == Len(a) <= Len(b) /\ SubSeq(b, 1, Len(a)) = a
Progress(log) == SelectSeq(log, LAMBDA f : f # ErrorFrame)
SuccessfulTurnFrameOrder ==
    \A c \in Conns :
        (InTurn(c) /\ open[c] /\ pc[c] # "closed") =>
            /\ IsPrefix(Progress(sent[c]), TurnFrames(origin[c]))
            /\ IsPrefix(Progress(sent[c]), sent[c])
            /\ (pc[c] = "end" /\ rendered[c]) =>
                    IsPrefix(TurnFrames(origin[c]), sent[c])
            /\ (pc[c] = "end" /\ ~failed[c]) => sent[c] = TurnFrames(origin[c])

\* C4 witness: an audio turn has ended without an exception on a connection
\* whose client is connected.
AudioTurnDelivered ==
    \E c \in Conns :
        /\ pc[c] = "end" /\ origin[c] = "audio" /\ open[c]
        /\ rendered[c] /\ ~failed[c]

\* C5: while the client stays connected, the step in which the transcription,
\* text-generation, synthesis or render call fails returns the handler to the
\* receive loop and leaves the connection open and the registry as it was;
\* from there the handler goes back to receive(), and the next input it reads
\* on a registered session starts a turn.
AdapterStages == {"stt", "llm", "tts", "render"}
FailureEndsOnlyTurn ==
    [][\A c \in Conns :
          /\ (pc[c] \in AdapterStages /\ open[c] /\ failed'[c]) =>
                /\ pc'[c] = "end"
                /\ open'[c]
                /\ active_sessions' = active_sessions
                /\ Occurs(ErrorFrame, sent'[c])
          /\ (pc[c] = "end" /\ pc'[c] # "end") => pc'[c] = "recv"
          /\ (pc[c] = "recv" /\ open[c] /\ Registered(c) /\ inbox'[c] < inbox[c]) =>
                pc'[c] \in {"stt", "llm"}
    ]_vars

\* C5 witness: both inputs were sent on connection 1; its first turn ended
\* without recording anything (its transcription or generation call failed)
\* and the second one has passed the text generation.
TurnAfterFailedTurn ==
    /\ pc[2] = "new" /\ nsent = 2 /\ inbox[1] = 0 /\ open[1]
    /\ pc[1] = "tts"
    /\ ncommit[1] \in {1, MaxPrior + 1}
    /\ Registered(1)

\* C6: when the handling of an inbound frame has failed, or the frame was of
\* an unsupported type, exactly one error frame has been sent on the
\* connection (stated while the client is connected).
ExactlyOneError ==
    \A c \in Conns :
        (pc[c] \in {"end", "closed"} /\ open[c]
            /\ (failed[c] \/ origin[c] = "other")) =>
            CountOf(ErrorFrame, sent[c]) = 1

\* C7: a render call that starts is the oldest render request not yet
\* started.
RenderStartsInFifoOrder ==
    [][\A c \in Conns :
          (c \in running' /\ c \notin running) => c = Head(taken \o workq)
    ]_vars

\* C8: the buffer stored in a connection's session holds only entries
\* recorded by turns of that connection.
BufferIsolation ==
    \A c \in Conns :
        Registered(c) =>
            \A i \in 1..Len(Buffer(session_id[c])) :
                Buffer(session_id[c])[i].conn = c

\* C9: a connection's handler takes an input off the connection only while
\* it waits in receive() with no frame being handled; every turn it ended on
\* a connected client ended with a video_ready or an error frame, and every
\* frame sent while an input is waiting belongs to the turn in progress.
LastFrame(log) == log[Len(log)]
TeardownNeverLeaks ==
    /\ \A c \in Conns :
          (pc[c] \notin {"new", "done"} /\ ~open[c]) ~> (pc[c] \in {"closed", "done"})
    /\ [][\A c \in Conns :
            /\ (pc[c] # "closed" /\ pc'[c] = "closed") =>
                  session_id[c] \notin DOMAIN active_sessions'
            /\ (pc[c] # "new" /\ ~open[c]) => Len(sent'[c]) <= Len(sent[c])
       ]_vars

\* C10 witness: the client disconnected in the middle of a turn, the send of
\* the error frame raised, and websocket_endpoint has run its finally block.
TornDownMidTurn ==
    \E c \in Conns :
        /\ pc[c] = "closed" /\ ~open[c] /\ InTurn(c) /\ failed[c]
        /\ session_id[c] \notin DOMAIN active_sessions

\* C11: when a turn has ended on a connected client, no synthesized-audio
\* temp file of that turn exists any more.
TempFileReleased ==
    \A c \in Conns :
        (TurnEnded(c) /\ open[c]) => temp_file[c] # "audio"

\* C12: a turn that has sent video_ready has sent no error frame.
CleanupFailureNotSurfaced ==
    \A c \in Conns :
        (TurnEnded(c) /\ Occurs(VideoReadyFrame, sent[c])) =>
            ~Occurs(ErrorFrame, sent[c])

\* C13: every frame sent on a connection has a type in {connection, status,
\* transcription, response, video_ready, error}, and every status frame a
\* status in {transcribing, thinking, synthesizing, generating_video}.
FrameTypes ==
    {"connection", "status", "transcription", "response", "video_ready", "error"}
StatusValues == {"transcribing", "thinking", "synthesizing", "generating_video"}
OnlySpecifiedFrames ==
    \A c \in Conns : \A i \in 1..Len(sent[c]) :
        /\ sent[c][i].type \in FrameTypes
        /\ sent[c][i].type = "status" => sent[c][i].status \in StatusValues

\* C14: no two accepted connections, live or ended, have the same session id.
UniqueSessionIds ==
    \A b \in Conns : \A c \in Conns \ {b} :
        (pc[b] # "new" /\ pc[c] # "new") => session_id[b] # session_id[c]

\* C15: the render of a request whose client disconnected after the request
\* was made (its generating_video frame was delivered) and before the render
\* started never starts.
PendingRenderWithdrawn ==
    [][\A c \in Conns :
          (c \in running' /\ c \notin running
              /\ Occurs(Status("generating_video"), sent[c])) => open[c]
    ]_vars

\* C16: removing a session id from the registry twice gives the registry
\* that removing it once gives; removing an id that is not registered changes
\* nothing; a removal leaves every other entry as it was; and a teardown for
\* an id that is no longer registered leaves the registry unchanged.
RemovalIdempotent ==
    /\ [](\A id \in Stamps :
            LET once == Remove(active_sessions, id) IN
            /\ Remove(once, id) = once
            /\ id \notin DOMAIN active_sessions => once = active_sessions
            /\ DOMAIN once = DOMAIN active_sessions \ {id}
            /\ \A j \in DOMAIN once : once[j] = active_sessions[j])
    /\ [][\A c \in Conns :
            (pc[c] # "closed" /\ pc'[c] = "closed"
                /\ session_id[c] \notin DOMAIN active_sessions) =>
                active_sessions' = active_sessions
       ]_vars

\* C16 witness: both connections had the same session id, connection 1
\* started a turn after connection 2 was accepted, and both have run their
\* teardown, so the second teardown found the id already removed.
TornDownTwice ==
    /\ session_id[1] = session_id[2]
    /\ pc[1] = "closed" /\ InTurn(1)
    /\ ncommit[1] >= MaxPrior /\ hist0[1] = <<>>
    /\ pc[2] \in {"closed", "done"}
    /\ active_sessions = <<>>

\* C17: a handler suspended in the transcription, generation, synthesis or
\* render call of a connected client has that stage's status frame as the
\* last frame sent; a step that starts such a call raised no exception, and a
\* render is pending or running only for a handler suspended in the render
\* call.
StageStatus(p) ==
    CASE p = "stt" -> Status("transcribing")
      [] p = "llm" -> Status("thinking")
      [] p = "tts" -> Status("synthesizing")
      [] p = "render" -> Status("generating_video")
Pending == {workq[i] : i \in 1..Len(workq)} \cup {taken[i] : i \in 1..Len(taken)}
StatusBeforeCall ==
    /\ [](\A c \in Conns :
            /\ (pc[c] \in AdapterStages /\ open[c]) =>
                  /\ sent[c] # <<>>
                  /\ LastFrame(sent[c]) = StageStatus(pc[c])
            /\ c \in Pending \cup running => pc[c] = "render")
    /\ [][\A c \in Conns :
            (pc'[c] \in AdapterStages /\ pc'[c] # pc[c]) =>
                /\ ~failed'[c]
                /\ open[c] => /\ sent'[c] # <<>>
                               /\ LastFrame(sent'[c]) = StageStatus(pc'[c])
       ]_vars

\* C17 witness: the render of an audio turn of a connected client executes,
\* all four status frames having been sent.
RenderAfterAllStatuses ==
    \E c \in Conns :
        /\ c \in running /\ open[c] /\ origin[c] = "audio"
        /\ \A p \in AdapterStages : Occurs(StageStatus(p), sent[c])

\* C18: while the render of one connection executes, every other connection
\* with a connected client can take its next step: read a waiting input, and
\* have its transcription, generation or synthesis call return and the frames
\* that follow it sent.
RenderBlocksOnlyItsTurn ==
    \A c \in running : \A b \in Conns \ {c} :
        open[b] =>
            /\ (pc[b] = "recv" /\ inbox[b] > 0) =>
                  ENABLED (Receive(b, "audio", FALSE)
                             /\ Occurs(Status("transcribing"), sent'[b]))
            /\ (pc[b] = "stt" /\ session_id[b] \in DOMAIN active_sessions) =>
                  ENABLED (SttReturn(b, TRUE, FALSE)
                             /\ Occurs(TranscriptionFrame, sent'[b]))
            /\ pc[b] = "llm" =>
                  ENABLED (LlmReturn(b, TRUE, FALSE)
                             /\ Occurs(ResponseFrame, sent'[b]))
            /\ pc[b] = "tts" =>
                  ENABLED (TtsReturn(b, TRUE, FALSE)
                             /\ Occurs(Status("generating_video"), sent'[b]))

\* C18 witness: one connection's render executes while another connection
\* with a connected client waits for its text generation call.
OtherTurnDuringRender ==
    \E c \in running : \E b \in Conns \ {c} : pc[b] = "llm" /\ open[b]

\* C19: the message list of a pending text generation call is the system
\* prompt, the session's buffer as it was when the turn began, and the turn's
\* user text once; it holds no entry of a turn that is still in progress.
InFlight(e) ==
    \E b \in Conns :
        /\ pc[b] \in AdapterStages
        /\ e.conn = b /\ e.n = user_text[b] /\ e.role # "system"
LlmMessagesFromCommittedTurns ==
    \A c \in Conns :
        pc[c] = "llm" =>
            /\ messages[c] = Messages(hist0[c], c, user_text[c])
            /\ \A i \in 1..(Len(messages[c]) - 1) : ~InFlight(messages[c][i])

\* C20: the buffer stored for a connection's session is the last
\* min(10, n) entries of the in-order sequence of all n entries the
\* connection's turns have recorded.
RECURSIVE AllEntries(_, _)
AllEntries(c, k) ==
    IF k = 0 THEN <<>> ELSE Appended(AllEntries(c, k - 1), c, k)
FrontEviction ==
    \A c \in Conns :
        Registered(c) =>
            Buffer(session_id[c]) = LastN(AllEntries(c, ncommit[c]), HistoryCap)

\* C21: while a turn is in its transcription or text generation call no
\* list holds an entry of that turn, and the step in which that call fails
\* (the handler returning to the receive loop) leaves the registry and every
\* registered buffer as they were and records nothing.
HoldsEntryOf(c, h) ==
    \E i \in 1..Len(h) : h[i].conn = c /\ h[i].n = user_text[c]
EarlyFailureLeavesBuffer ==
    /\ [](\A c \in Conns :
            pc[c] \in {"stt", "llm"} =>
                \A l \in ListIds : ~HoldsEntryOf(c, heap[l]))
    /\ [][\A c \in Conns :
            (pc[c] \in {"stt", "llm"} /\ failed'[c] /\ pc'[c] = "end") =>
                /\ active_sessions' = active_sessions
                /\ ncommit' = ncommit
                /\ \A id \in DOMAIN active_sessions :
                      heap'[dictHist'[active_sessions'[id]]] = Buffer(id)
       ]_vars

\* C21 witness: the text generation call of a turn failed on a connected
\* client whose session has a non-empty buffer, the one it had before the
\* turn.
GenerationFailedBufferKept ==
    \E c \in Conns :
        /\ TurnEnded(c) /\ failed[c] /\ open[c] /\ Registered(c)
        /\ sent[c] = <<Status("thinking"), ErrorFrame>>
        /\ Buffer(session_id[c]) # <<>>
        /\ Buffer(session_id[c]) = hist0[c]

\* C22: the transcription call is never pending for a raw audio frame of
\* zero length, and the handling of such a frame sends no transcription
\* frame.
EmptyAudioRejected ==
    /\ [](\A c \in Conns : pc[c] = "stt" => audio_data[c] # "empty")
    /\ [][\A c \in Conns :
            audio_data[c] = "empty" => ~Occurs(TranscriptionFrame, sent'[c])
       ]_vars

\* C23: every buffer stored in a session has even length and its entries
\* alternate user, assistant, user, assistant, ..., each assistant entry
\* being the reply to the user entry before it.
Alternates(h) ==
    /\ Len(h) % 2 = 0
    /\ \A i \in 1..Len(h) :
          h[i].role = IF i % 2 = 1 THEN "user" ELSE "assistant"
    /\ \A i \in 1..Len(h) :
          i % 2 = 0 => (h[i].conn = h[i - 1].conn /\ h[i].n = h[i - 1].n)
BufferAlternates ==
    \A d \in Conns : dictHist[d] # NoRef => Alternates(heap[dictHist[d]])

\* C23 witness: a turn recorded its pair in a buffer of 10 entries and the
\* stored buffer now begins with what was the third entry, a user entry.
TrimDroppedOldestPair ==
    \E c \in Conns :
        /\ pc[c] = "tts" /\ Len(hist0[c]) = HistoryCap
        /\ session[c] # NoRef /\ dictHist[session[c]] # NoRef
        /\ Len(heap[dictHist[session[c]]]) = HistoryCap
        /\ heap[dictHist[session[c]]][1] = hist0[c][3]
        /\ heap[dictHist[session[c]]][1].role = "user"

\* C24: the renders of any two turns wrote to distinct output paths.
DistinctVideoPaths ==
    \A b \in Conns : \A c \in Conns \ {b} :
        (video_path[b] # <<>> /\ video_path[c] # <<>>) =>
            video_path[b] # video_path[c]

\* C25: provided every pending call returns, a handler that is inside a turn
\* (or has just ended one) gets back to receive() unless the client
\* disconnects; the step that ends a turn on a connected client has sent a
\* video_ready or an error frame as the turn's last frame, and from the end
\* of a turn the handler goes nowhere but back to receive().
EveryTurnTerminates ==
    /\ \A c \in Conns :
          (pc[c] \in AdapterStages \cup {"end"}) ~> (pc[c] = "recv" \/ ~open[c])
    /\ [][\A c \in Conns :
            /\ (pc[c] # "end" /\ pc'[c] = "end" /\ InTurn(c)' /\ open[c]) =>
                  /\ sent'[c] # <<>>
                  /\ LastFrame(sent'[c]) \in {VideoReadyFrame, ErrorFrame}
            /\ (pc[c] = "end" /\ pc'[c] # "end") =>
                  (pc'[c] = "recv" /\ sent'[c] = <<>> /\ origin'[c] = "none")
       ]_vars

\* C25 witness: a connection with a connected client is back in receive()
\* after a turn that went through the text generation.
ReadyAfterTurn ==
    \E c \in Conns :
        /\ pc[c] = "recv" /\ open[c] /\ inbox[c] = 0
        /\ ncommit[c] = 1 /\ nsent >= 1

====
